---- MODULE Spec2Model ----
(***************************************************************************)
(* PyScaffold's action pipeline (src/pyscaffold/actions.py): discover,     *)
(* invoke, the default actions defined in that file, and the collaborators  *)
(* they call.  Text is modelled as sequences of one-character strings, an   *)
(* options dict as a function from its keys to values.                      *)
(***************************************************************************)
EXTENDS Integers, Sequences, FiniteSets, TLC

\* ------------------------------------------------------------------ bounds

\* longest generic project_path text a caller passes to an action it calls
MaxPathLen == 2
\* longest generic project_path text a caller starts a pipeline run with
MaxRunPathLen == 1
\* most optional keys a caller supplies to a directly called action
MaxSupplied == 3
\* pipeline runs in a row on the same file system
MaxRuns == 2

\* ------------------------------------------------------------------ text

SEP == "/"

Digits == {"0", "1", "2", "3", "4", "5", "6", "7", "8", "9"}
LowerLetters == {"a", "b", "d", "f", "i", "j", "m", "o", "p", "r", "y"}
UpperLetters == {"M", "P"}

ToLower(c) == CASE c = "M" -> "m" [] c = "P" -> "p" [] OTHER -> c

DigitVal(c) ==
    CASE c = "0" -> 0 [] c = "1" -> 1 [] c = "2" -> 2 [] c = "3" -> 3
      [] c = "4" -> 4 [] c = "5" -> 5 [] c = "6" -> 6 [] c = "7" -> 7
      [] c = "8" -> 8 [] c = "9" -> 9

DigitChar(n) == <<"0", "1", "2", "3", "4", "5", "6", "7", "8", "9">>[n + 1]

\* all texts over alphabet A of length at most n
RECURSIVE TextsUpTo(_, _)
TextsUpTo(A, n) ==
    IF n = 0 THEN {<<>>}
    ELSE LET shorter == TextsUpTo(A, n - 1)
         IN  shorter \cup {Append(s, c) : s \in shorter, c \in A}

\* str.rstrip(chars) with a single character
RECURSIVE rstrip(_, _)
rstrip(s, c) ==
    IF s # <<>> /\ s[Len(s)] = c THEN rstrip(SubSeq(s, 1, Len(s) - 1), c) ELSE s

\* str.split(sep): the pieces between occurrences of sep, empty pieces kept
RECURSIVE SplitAcc(_, _, _, _)
SplitAcc(s, c, i, cur) ==
    IF i > Len(s) THEN <<cur>>
    ELSE IF s[i] = c THEN <<cur>> \o SplitAcc(s, c, i + 1, <<>>)
    ELSE SplitAcc(s, c, i + 1, Append(cur, s[i]))

Split(s, c) == SplitAcc(s, c, 1, <<>>)

\* sep.join(parts)
RECURSIVE Join(_, _)
Join(parts, c) ==
    IF parts = <<>> THEN <<>>
    ELSE IF Len(parts) = 1 THEN parts[1]
    ELSE parts[1] \o <<c>> \o Join(Tail(parts), c)

\* c * n
RECURSIVE Repeat(_, _)
Repeat(c, n) == IF n = 0 THEN <<>> ELSE <<c>> \o Repeat(c, n - 1)

\* ------------------------------------------------------------------ pathlib

RECURSIVE LeadingSeps(_)
LeadingSeps(s) == IF s # <<>> /\ s[1] = SEP THEN 1 + LeadingSeps(Tail(s)) ELSE 0

\* the root of a POSIX path text: exactly two leading slashes are kept
PathRoot(s) ==
    LET n == LeadingSeps(s)
    IN  IF n = 0 THEN <<>> ELSE IF n = 2 THEN <<SEP, SEP>> ELSE <<SEP>>

IsRealPart(p) == p # <<>> /\ p # <<".">>

\* the components of a path text: empty and "." components are dropped
PathParts(s) == SelectSeq(Split(s, SEP), IsRealPart)

\* str(Path(s)): components joined under the root, "." for the empty path
PathOf(s) ==
    LET root == PathRoot(s)
        parts == PathParts(s)
    IN  IF root = <<>> /\ parts = <<>> THEN <<".">>
        ELSE root \o Join(parts, SEP)

\* Path.name: the final component, empty when there is none
PathName(p) ==
    LET parts == PathParts(p)
    IN  IF parts = <<>> THEN <<>> ELSE parts[Len(parts)]

\* ------------------------------------------------------------------ identification

\* reserved words of the language that the model's alphabet can spell
Keywords == {<<"i", "f">>, <<"o", "r">>}

IsIdentStart(c) == c \in LowerLetters \cup UpperLetters \cup {"_"}
IsIdentChar(c) == IsIdentStart(c) \/ c \in Digits

\* identification.is_valid_identifier: a non-empty identifier of the language
\* that is no reserved word
is_valid_identifier(s) ==
    /\ s # <<>>
    /\ IsIdentStart(s[1])
    /\ \A i \in 1..Len(s) : IsIdentChar(s[i])
    /\ s \notin Keywords

\* the best-effort transform of identification.make_valid_identifier: invalid
\* characters stripped, lower-cased, prefixed when it starts with a digit
Identified(s) ==
    LET kept == SelectSeq(s, IsIdentChar)
        low == [i \in 1..Len(kept) |-> ToLower(kept[i])]
    IN  IF low # <<>> /\ low[1] \in Digits THEN <<"_">> \o low ELSE low

\* identification.make_valid_identifier: [exc, value]; InvalidIdentifier when
\* the transform yields no valid identifier
make_valid_identifier(s) ==
    IF is_valid_identifier(Identified(s))
    THEN [exc |-> "none", value |-> Identified(s)]
    ELSE [exc |-> "InvalidIdentifier", value |-> <<>>]

\* ------------------------------------------------------------------ datetime

AllDigits(s) == \A i \in 1..Len(s) : s[i] \in Digits

RECURSIVE NumVal(_)
NumVal(s) == IF s = <<>> THEN 0 ELSE 10 * NumVal(SubSeq(s, 1, Len(s) - 1)) + DigitVal(s[Len(s)])

IsLeap(y) == (y % 4 = 0 /\ y % 100 # 0) \/ y % 400 = 0

DaysIn(y, m) ==
    IF m = 2 THEN (IF IsLeap(y) THEN 29 ELSE 28)
    ELSE IF m \in {4, 6, 9, 11} THEN 30 ELSE 31

\* datetime.strptime(s, "%Y-%m-%d"): [exc, year]; ValueError when s does not
\* match the format or names no day of the calendar
strptime(s) ==
    LET f == Split(s, "-")
        shaped == /\ Len(f) = 3
                  /\ Len(f[1]) = 4 /\ AllDigits(f[1])
                  /\ Len(f[2]) \in 1..2 /\ AllDigits(f[2])
                  /\ Len(f[3]) \in 1..2 /\ AllDigits(f[3])
        y == NumVal(f[1])
        m == NumVal(f[2])
        d == NumVal(f[3])
    IN  IF shaped /\ y >= 1 /\ m \in 1..12 /\ d \in 1..DaysIn(y, m)
        THEN [exc |-> "none", year |-> y]
        ELSE [exc |-> "ValueError", year |-> 0]

\* zero-padded decimal text of n, w characters wide
RECURSIVE Padded(_, _)
Padded(n, w) == IF w = 0 THEN <<>> ELSE Padded(n \div 10, w - 1) \o <<DigitChar(n % 10)>>

\* date.strftime("%Y-%m-%d")
strftime(d) == Padded(d.year, 4) \o <<"-">> \o Padded(d.month, 2) \o <<"-">> \o Padded(d.day, 2)

\* date.today(): the day of the run
Today == [year |-> 2026, month |-> 11, day |-> 6]

\* ------------------------------------------------------------------ dict

Has(d, k) == k \in DOMAIN d
Get(d, k, default) == IF Has(d, k) THEN d[k] ELSE default
Put(d, k, v) == [x \in DOMAIN d \cup {k} |-> IF x = k THEN v ELSE d[x]]
SetDefault(d, k, v) == IF Has(d, k) THEN d ELSE Put(d, k, v)
EmptyDict == [x \in {} |-> x]

\* ------------------------------------------------------------------ state

VARIABLES
    DEFAULT,      \* the module-level default action list
    extensions,   \* the extension list given to discover
    actions,      \* the action list discover returned
    struct,       \* the project representation threaded through the run
    opts,         \* the options dict the caller passed, threaded through the run
    idx,          \* position of the next action to invoke in actions
    pc,           \* "discover", "running", "done" or "failed"
    error,        \* the exception the caller of the run received, or "none"
    result,       \* the (struct, opts) pair the caller of the run received
    existing,     \* the paths that exist on disk
    repos,        \* the paths that are version-control workspaces
    dirty,        \* the workspaces with uncommitted changes
    gitStatus,    \* "ok", "not_installed" or "not_configured"
    repoCalls,    \* the calls of repo.init_commit_repo made in this run
    log,          \* the events logger.report received in this run
    nesting,      \* the logger's indent depth
    ranAt,        \* for each invoked action or activated extension, where it started
    discovered,   \* the calls of discover so far: what was given, what came back
    executed,     \* the actions invoke has called in this run, in order
    raised,       \* what the action called last raised, or "none"
    opts0,        \* the options as the caller passed them
    fs0,          \* the file system when the run started
    runNo,        \* the number of this run
    prev,         \* a summary of the run before this one
    edited        \* whether files changed outside the pipeline since the last run

vars == <<DEFAULT, extensions, actions, struct, opts, idx, pc, error, result,
          existing, repos, dirty, gitStatus, repoCalls, log, nesting, ranAt,
          discovered, executed, raised, opts0, fs0, runNo, prev, edited>>

\* ------------------------------------------------------------------ collaborators

\* a str or a Path value of the options
StrV(t) == [type |-> "str", text |-> t]
PathV(t) == [type |-> "Path", text |-> t]

\* info.check_git: raises when git is missing or knows no user
check_git(git) ==
    CASE git = "not_installed" -> "GitNotInstalled"
      [] git = "not_configured" -> "GitNotConfigured"
      [] OTHER -> "none"

\* info.username and info.email: what git knows of the user
username == <<"j", "o">>
email == <<"j", "@", "m">>

\* info.is_git_workspace_clean: the path is a workspace without uncommitted changes
is_git_workspace_clean(path, w) ==
    path.text \in w.existing /\ path.text \in w.repos /\ path.text \notin w.dirty

\* repo.is_git_repo
is_git_repo(path, w) == path.text \in w.existing /\ path.text \in w.repos

\* Path.exists
exists(path, w) == path.text \in w.existing

\* a value tested as a condition: None and False are falsy
Truthy(flag) == flag.isNone = FALSE /\ flag.value

BoolV(b) == [isNone |-> FALSE, value |-> b]
NoneFlag == [isNone |-> TRUE, value |-> FALSE]

\* repo.init_commit_repo: creates the workspace and makes the initial commit
\* of everything in it; writes nothing when pretending
init_commit_repo(path, pretend, w) ==
    LET call == [path |-> path.text, pretend |-> pretend]
    IN  IF Truthy(pretend)
        THEN [w EXCEPT !.repoCalls = Append(@, call)]
        ELSE [w EXCEPT !.existing = @ \cup {path.text},
                       !.repos = @ \cup {path.text},
                       !.dirty = @ \ {path.text},
                       !.repoCalls = Append(@, call)]

\* the files structure.define_structure puts in the tree
Template == {"setup.cfg", "src"}

\* structure.define_structure: populates the tree, the options pass through
define_structure(st, o, w) ==
    {[exc |-> "none", struct |-> st \cup Template, opts |-> o, world |-> w]}

\* update.version_migration: a pass-through of the tree and the options
version_migration(st, o, w) ==
    {[exc |-> "none", struct |-> st, opts |-> o, world |-> w]}

\* structure.create_structure: writes the tree under project_path unless
\* pretending; files written into a workspace are uncommitted changes
create_structure(st, o, w) ==
    LET path == Get(o, "project_path", PathV(<<".">>))
        pretend == Get(o, "pretend", FALSE)
        written == IF pretend THEN w
                   ELSE [w EXCEPT !.existing = @ \cup {path.text},
                                  !.dirty = IF path.text \in w.repos /\ st # {}
                                            THEN @ \cup {path.text} ELSE @]
    IN  {[exc |-> "none", struct |-> st, opts |-> o, world |-> written]}

\* ------------------------------------------------------------------ actions

\* the outcome of calling an action: what it raised, the pair it returned (when
\* it raised: the tree and the options dict as it left them) and the world
Outcome(e, st, o, w) == [exc |-> e, struct |-> st, opts |-> o, world |-> w]

Range(f) == {f[i] : i \in DOMAIN f}

\* list(a_set): the elements in an order the set's hashing decides
ListsOf(S) ==
    {p \in [1..Cardinality(S) -> S] :
        \A i, j \in 1..Cardinality(S) : p[i] = p[j] => i = j}

\* the loop over opts["extensions"]: the names requested
RequestedNames(exts) == {exts[i].name : i \in 1..Len(exts)}

\* the loop over opts["extensions"]: args[extension.name] = extension.args
\* for every extension whose args is not None, in list order
RECURSIVE RequestedArgs(_, _)
RequestedArgs(exts, args) ==
    IF exts = <<>> THEN args
    ELSE RequestedArgs(Tail(exts),
                       IF exts[1].args.isNone THEN args
                       ELSE Put(args, exts[1].name, exts[1].args.value))

\* "=" * len(name) + "\n" + name + "\n" + "=" * len(name)
TitleOf(name) ==
    Repeat("=", Len(name)) \o <<"\n">> \o name \o <<"\n">> \o Repeat("=", Len(name))

\* the defaults filled without qual_pkg
DefaultsFilled_without_qual_pkg(o7) ==
    LET year == strptime(o7["release_date"]).year
        o8 == SetDefault(o7, "year", year)
        o9 == SetDefault(o8, "title", TitleOf(o8["name"]))
        o10 == SetDefault(o9, "requirements", <<>>)
        o11 == SetDefault(o10, "extensions", <<>>)
        o12 == SetDefault(o11, "root_pkg", o11["package"])
    IN  SetDefault(o12, "pretend", FALSE)

\* the defaults filled with pretend assigned instead of defaulted
DefaultsFilled_resetting_pretend(o7) ==
    LET year == strptime(o7["release_date"]).year
        o8 == SetDefault(o7, "year", year)
        o9 == SetDefault(o8, "title", TitleOf(o8["name"]))
        o10 == SetDefault(o9, "requirements", <<>>)
        o11 == SetDefault(o10, "extensions", <<>>)
        o12 == SetDefault(o11, "root_pkg", o11["package"])
        o13 == SetDefault(o12, "qual_pkg", o12["package"])
    IN  Put(o13, "pretend", FALSE)

\* the options once the derivable defaults are set, before cli_params is saved
DefaultsFilled(o7) ==
    LET year == strptime(o7["release_date"]).year
        o8 == SetDefault(o7, "year", year)
        o9 == SetDefault(o8, "title", TitleOf(o8["name"]))
        o10 == SetDefault(o9, "requirements", <<>>)
        o11 == SetDefault(o10, "extensions", <<>>)
        o12 == SetDefault(o11, "root_pkg", o11["package"])
        o13 == SetDefault(o12, "qual_pkg", o12["package"])
    IN  SetDefault(o13, "pretend", FALSE)

\* cli_params saved with args starting from an empty mapping
CliSaved_forgetting_args(o) ==
    LET old == Get(o, "cli_params", EmptyDict)
        names == Range(Get(old, "extensions", <<>>)) \cup RequestedNames(o["extensions"])
        args == RequestedArgs(o["extensions"], EmptyDict)
    IN  {Put(o, "cli_params", [extensions |-> l, args |-> args]) : l \in ListsOf(names)}

\* the options with cli_params saved, one for every order list(extensions) can have
CliSaved(o) ==
    LET old == Get(o, "cli_params", EmptyDict)
        names == Range(Get(old, "extensions", <<>>)) \cup RequestedNames(o["extensions"])
        args == RequestedArgs(o["extensions"], Get(old, "args", EmptyDict))
    IN  {Put(o, "cli_params", [extensions |-> l, args |-> args]) : l \in ListsOf(names)}

\* get_default_options leaving project_path the text it was given
get_default_options_path_as_text(st, o, w) ==
    LET o1 == Put(o, "project_path",
                  StrV(rstrip(Get(o, "project_path", StrV(<<".">>)).text, SEP)))
        o2 == SetDefault(o1, "name", PathName(o1["project_path"].text))
        ident == make_valid_identifier(o2["name"])
        o3 == SetDefault(o2, "package", ident.value)
        o4 == SetDefault(o3, "author", username)
        o5 == SetDefault(o4, "email", email)
        o6 == SetDefault(o5, "release_date", strftime(Today))
    IN  IF check_git(w.gitStatus) # "none" THEN {Outcome(check_git(w.gitStatus), st, o, w)}
        ELSE IF ident.exc # "none" THEN {Outcome(ident.exc, st, o2, w)}
        ELSE IF strptime(o6["release_date"]).exc # "none"
             THEN {Outcome(strptime(o6["release_date"]).exc, st, o6, w)}
        ELSE {Outcome("none", st, saved, w) : saved \in CliSaved(DefaultsFilled(o6))}

get_default_options(st, o, w) ==
    LET o1 == Put(o, "project_path",
                  PathV(PathOf(rstrip(Get(o, "project_path", StrV(<<".">>)).text, SEP))))
        o2 == SetDefault(o1, "name", PathName(o1["project_path"].text))
        ident == make_valid_identifier(o2["name"])
        o3 == SetDefault(o2, "package", ident.value)
        o4 == SetDefault(o3, "author", username)
        o5 == SetDefault(o4, "email", email)
        o6 == SetDefault(o5, "release_date", strftime(Today))
    IN  IF check_git(w.gitStatus) # "none" THEN {Outcome(check_git(w.gitStatus), st, o, w)}
        ELSE IF ident.exc # "none" THEN {Outcome(ident.exc, st, o2, w)}
        ELSE IF strptime(o6["release_date"]).exc # "none"
             THEN {Outcome(strptime(o6["release_date"]).exc, st, o6, w)}
        ELSE {Outcome("none", st, saved, w) : saved \in CliSaved(DefaultsFilled(o6))}

\* verify_options_consistency looking at the workspace before the identifier
verify_options_consistency_dirty_first(st, o, w) ==
    IF ~Has(o, "update") THEN {Outcome("KeyError", st, o, w)}
    ELSE IF o["update"] /\ ~Has(o, "force") THEN {Outcome("KeyError", st, o, w)}
    ELSE IF o["update"] /\ ~o["force"] /\ ~Has(o, "project_path")
         THEN {Outcome("KeyError", st, o, w)}
    ELSE IF o["update"] /\ ~o["force"] /\ ~is_git_workspace_clean(o["project_path"], w)
         THEN {Outcome("GitDirtyWorkspace", st, o, w)}
    ELSE IF ~Has(o, "package") THEN {Outcome("KeyError", st, o, w)}
    ELSE IF ~is_valid_identifier(o["package"]) THEN {Outcome("InvalidIdentifier", st, o, w)}
    ELSE {Outcome("none", st, o, w)}

\* verify_options_consistency without the identifier check
verify_options_consistency_any_package(st, o, w) ==
    IF ~Has(o, "update") THEN {Outcome("KeyError", st, o, w)}
    ELSE IF ~o["update"] THEN {Outcome("none", st, o, w)}
    ELSE IF ~Has(o, "force") THEN {Outcome("KeyError", st, o, w)}
    ELSE IF o["force"] THEN {Outcome("none", st, o, w)}
    ELSE IF ~Has(o, "project_path") THEN {Outcome("KeyError", st, o, w)}
    ELSE IF ~is_git_workspace_clean(o["project_path"], w)
         THEN {Outcome("GitDirtyWorkspace", st, o, w)}
    ELSE {Outcome("none", st, o, w)}

verify_options_consistency(st, o, w) ==
    IF ~Has(o, "package") THEN {Outcome("KeyError", st, o, w)}
    ELSE IF ~is_valid_identifier(o["package"]) THEN {Outcome("InvalidIdentifier", st, o, w)}
    ELSE IF ~Has(o, "update") THEN {Outcome("KeyError", st, o, w)}
    ELSE IF ~o["update"] THEN {Outcome("none", st, o, w)}
    ELSE IF ~Has(o, "force") THEN {Outcome("KeyError", st, o, w)}
    ELSE IF o["force"] THEN {Outcome("none", st, o, w)}
    ELSE IF ~Has(o, "project_path") THEN {Outcome("KeyError", st, o, w)}
    ELSE IF ~is_git_workspace_clean(o["project_path"], w)
         THEN {Outcome("GitDirtyWorkspace", st, o, w)}
    ELSE {Outcome("none", st, o, w)}

\* verify_project_dir refusing an existing directory only when force is set
verify_project_dir_force_inverted(st, o, w) ==
    IF ~Has(o, "project_path") THEN {Outcome("KeyError", st, o, w)}
    ELSE IF o["project_path"].type # "Path" THEN {Outcome("AttributeError", st, o, w)}
    ELSE IF ~Has(o, "update") THEN {Outcome("KeyError", st, o, w)}
    ELSE IF exists(o["project_path"], w)
         THEN IF o["update"] THEN {Outcome("none", st, o, w)}
              ELSE IF ~Has(o, "force") THEN {Outcome("KeyError", st, o, w)}
              ELSE IF o["force"] THEN {Outcome("DirectoryAlreadyExists", st, o, w)}
              ELSE {Outcome("none", st, o, w)}
    ELSE IF o["update"] THEN {Outcome("DirectoryDoesNotExist", st, o, w)}
    ELSE {Outcome("none", st, o, w)}

\* verify_project_dir letting force excuse a missing directory
verify_project_dir_force_excuses(st, o, w) ==
    IF ~Has(o, "project_path") THEN {Outcome("KeyError", st, o, w)}
    ELSE IF o["project_path"].type # "Path" THEN {Outcome("AttributeError", st, o, w)}
    ELSE IF ~Has(o, "update") THEN {Outcome("KeyError", st, o, w)}
    ELSE IF exists(o["project_path"], w)
         THEN IF o["update"] THEN {Outcome("none", st, o, w)}
              ELSE IF ~Has(o, "force") THEN {Outcome("KeyError", st, o, w)}
              ELSE IF ~o["force"] THEN {Outcome("DirectoryAlreadyExists", st, o, w)}
              ELSE {Outcome("none", st, o, w)}
    ELSE IF o["update"] /\ ~Get(o, "force", FALSE)
         THEN {Outcome("DirectoryDoesNotExist", st, o, w)}
    ELSE {Outcome("none", st, o, w)}

verify_project_dir(st, o, w) ==
    IF ~Has(o, "project_path") THEN {Outcome("KeyError", st, o, w)}
    ELSE IF o["project_path"].type # "Path" THEN {Outcome("AttributeError", st, o, w)}
    ELSE IF ~Has(o, "update") THEN {Outcome("KeyError", st, o, w)}
    ELSE IF exists(o["project_path"], w)
         THEN IF o["update"] THEN {Outcome("none", st, o, w)}
              ELSE IF ~Has(o, "force") THEN {Outcome("KeyError", st, o, w)}
              ELSE IF ~o["force"] THEN {Outcome("DirectoryAlreadyExists", st, o, w)}
              ELSE {Outcome("none", st, o, w)}
    ELSE IF o["update"] THEN {Outcome("DirectoryDoesNotExist", st, o, w)}
    ELSE {Outcome("none", st, o, w)}

\* init_git calling repo.init_commit_repo without the pretend flag
init_git_without_pretend(st, o, w) ==
    IF ~Has(o, "update") THEN {Outcome("KeyError", st, o, w)}
    ELSE IF o["update"] THEN {Outcome("none", st, o, w)}
    ELSE IF ~Has(o, "project_path") THEN {Outcome("KeyError", st, o, w)}
    ELSE IF is_git_repo(o["project_path"], w) THEN {Outcome("none", st, o, w)}
    ELSE {Outcome("none", st, o, init_commit_repo(o["project_path"], NoneFlag, w))}

\* init_git(struct, opts)
init_git(st, o, w) ==
    IF ~Has(o, "update") THEN {Outcome("KeyError", st, o, w)}
    ELSE IF o["update"] THEN {Outcome("none", st, o, w)}
    ELSE IF ~Has(o, "project_path") THEN {Outcome("KeyError", st, o, w)}
    ELSE IF is_git_repo(o["project_path"], w) THEN {Outcome("none", st, o, w)}
    ELSE {Outcome("none", st, o,
                  init_commit_repo(o["project_path"],
                                   IF Has(o, "pretend") THEN BoolV(o["pretend"]) ELSE NoneFlag,
                                   w))}

\* an action an extension added to the list: a pass-through
custom_action(st, o, w) == {Outcome("none", st, o, w)}

\* calling the action named a
Call(a, st, o, w) ==
    CASE a = "get_default_options" -> get_default_options(st, o, w)
      [] a = "verify_options_consistency" -> verify_options_consistency(st, o, w)
      [] a = "define_structure" -> define_structure(st, o, w)
      [] a = "verify_project_dir" -> verify_project_dir(st, o, w)
      [] a = "version_migration" -> version_migration(st, o, w)
      [] a = "create_structure" -> create_structure(st, o, w)
      [] a = "init_git" -> init_git(st, o, w)
      [] OTHER -> custom_action(st, o, w)

\* ------------------------------------------------------------------ engine

\* identification.get_id: the module-qualified name of an action
get_id(a) ==
    CASE a \in {"define_structure", "create_structure"} -> <<"pyscaffold.structure", a>>
      [] a = "version_migration" -> <<"pyscaffold.update", a>>
      [] OTHER -> <<"pyscaffold.actions", a>>

\* logger.report at the logger's current depth
report(lg, event, subject) ==
    [lg EXCEPT !.log = Append(@, [event |-> event, subject |-> subject, depth |-> lg.nesting])]

\* entering the scope of logger.indent(): one level deeper
indent_enter(lg) == [lg EXCEPT !.nesting = @ + 1]

\* leaving the scope of logger.indent(), by return or by exception: the depth
\* the scope was entered at
indent_exit(lg, depth) == [lg EXCEPT !.nesting = depth]

\* the callee starts to run inside the scope: lg.ran keeps the depth it runs
\* at and the number of events reported by then
Entered(lg) == [lg EXCEPT !.ran = Append(@, [depth |-> lg.nesting, after |-> Len(lg.log)])]

\* invoke wrapping what the action raises in an exception of its own
invoke_wrapping(a, st, o, w, lg) ==
    LET reported == report(lg, "invoke", get_id(a))
        inside == Entered(indent_enter(reported))
        left == indent_exit(inside, lg.nesting)
    IN  {[exc |-> IF out.exc = "none" THEN "none" ELSE "RuntimeError",
          raised |-> out.exc, struct |-> out.struct, opts |-> out.opts,
          world |-> out.world, log |-> left.log, nesting |-> left.nesting,
          ran |-> left.ran] : out \in Call(a, st, o, w)}

\* invoke keeping the indent when the action raises
invoke_indent_kept_on_raise(a, st, o, w, lg) ==
    LET reported == report(lg, "invoke", get_id(a))
        inside == Entered(indent_enter(reported))
        left == indent_exit(inside, lg.nesting)
    IN  {[exc |-> out.exc, raised |-> out.exc, struct |-> out.struct, opts |-> out.opts,
          world |-> out.world, log |-> left.log,
          nesting |-> IF out.exc = "none" THEN left.nesting ELSE inside.nesting,
          ran |-> left.ran] : out \in Call(a, st, o, w)}

\* invoke(action, struct, opts): reports, runs the action one level deeper and
\* returns its pair; what the action raises leaves invoke as it is.  raised is
\* what the action itself raised.
invoke(a, st, o, w, lg) ==
    LET reported == report(lg, "invoke", get_id(a))
        inside == Entered(indent_enter(reported))
        left == indent_exit(inside, lg.nesting)
    IN  {[exc |-> out.exc, raised |-> out.exc, struct |-> out.struct, opts |-> out.opts,
          world |-> out.world, log |-> left.log, nesting |-> left.nesting,
          ran |-> left.ran] : out \in Call(a, st, o, w)}

\* a list without its last element
ButLast(acts) == IF acts = <<>> THEN acts ELSE SubSeq(acts, 1, Len(acts) - 1)

\* what an extension does with the action list it receives: the list it
\* returns, and whether that is the very list object it received ("same"),
\* changed in place or left alone, or a new list
Extend(ext, acts) ==
    CASE ext.effect = "append" ->
            [exc |-> "none", actions |-> Append(acts, "custom_action"), same |-> FALSE]
      [] ext.effect = "drop_last" ->
            [exc |-> "none", actions |-> ButLast(acts), same |-> FALSE]
      [] ext.effect = "append_in_place" ->
            [exc |-> "none", actions |-> Append(acts, "custom_action"), same |-> TRUE]
      [] ext.effect = "pop_in_place" ->
            [exc |-> "none", actions |-> ButLast(acts), same |-> TRUE]
      [] ext.effect = "raise" -> [exc |-> "ExtensionError", actions |-> acts, same |-> TRUE]
      [] OTHER -> [exc |-> "none", actions |-> acts, same |-> TRUE]

\* _activate(extension, actions) on the list object lst, which is the
\* module-level list itself when lst.isDefault; default is the value of the
\* module-level list, which changes with an in-place change of that object
_activate(ext, lst, default, lg) ==
    LET reported == report(lg, "activate", ext.name)
        inside == Entered(indent_enter(reported))
        out == Extend(ext, lst.items)
        left == indent_exit(inside, lg.nesting)
    IN  [exc |-> out.exc,
         list |-> [items |-> out.actions, isDefault |-> lst.isDefault /\ out.same],
         default |-> IF lst.isDefault /\ out.same THEN out.actions ELSE default,
         lg |-> left]

\* an extension may be placed once none of those still waiting, itself
\* included, has to precede it
Ready(e, waiting) ==
    \A i \in 1..Len(waiting) :
        waiting[i].name \notin e.after /\ e.name \notin waiting[i].before

RECURSIVE SortAcc(_, _)
SortAcc(waiting, placed) ==
    IF waiting = <<>> THEN [exc |-> "none", value |-> placed]
    ELSE IF \A i \in 1..Len(waiting) : ~Ready(waiting[i], waiting)
         THEN [exc |-> "OrderingError", value |-> <<>>]
    ELSE LET i == CHOOSE k \in 1..Len(waiting) :
                      /\ Ready(waiting[k], waiting)
                      /\ \A j \in 1..(k - 1) : ~Ready(waiting[j], waiting)
         IN  SortAcc(SubSeq(waiting, 1, i - 1) \o SubSeq(waiting, i + 1, Len(waiting)),
                     Append(placed, waiting[i]))

\* identification.deterministic_sort: the extensions in an order that keeps
\* every declared constraint, the input order otherwise
deterministic_sort(exts) == SortAcc(exts, <<>>)

\* what discover gives its caller and leaves behind
Discovered(e, acts, default, lg) ==
    [exc |-> e, actions |-> acts, default |-> default, log |-> lg.log,
     nesting |-> lg.nesting, ran |-> lg.ran]

\* reduce(lambda acc, f: _activate(f, acc), extensions, actions)
RECURSIVE Activated(_, _, _, _)
Activated(exts, lst, default, lg) ==
    IF exts = <<>> THEN Discovered("none", lst.items, default, lg)
    ELSE LET one == _activate(exts[1], lst, default, lg)
         IN  IF one.exc # "none" THEN Discovered(one.exc, <<>>, one.default, one.lg)
             ELSE Activated(Tail(exts), one.list, one.default, one.lg)

\* DEFAULT.copy(): a new list object with the same elements
Copy(list) == [items |-> [i \in 1..Len(list) |-> list[i]], isDefault |-> FALSE]

\* discover starting from the default list without its first action
discover_without_first(exts, default, lg) ==
    LET acts == Copy(Tail(default))
        sorted == deterministic_sort(exts)
    IN  IF sorted.exc # "none"
        THEN Discovered(sorted.exc, <<>>, default, lg)
        ELSE Activated(sorted.value, acts, default, lg)

\* discover activating the extensions in the order they were given
discover_unsorted(exts, default, lg) ==
    Activated(exts, Copy(default), default, lg)

\* discover falling back to the given order when the constraints cannot be met
discover_falling_back(exts, default, lg) ==
    LET acts == Copy(default)
        sorted == deterministic_sort(exts)
    IN  Activated(IF sorted.exc # "none" THEN exts ELSE sorted.value, acts, default, lg)

\* discover activating the extensions from the last to the first
discover_right_to_left(exts, default, lg) ==
    LET acts == Copy(default)
        sorted == deterministic_sort(exts)
    IN  IF sorted.exc # "none"
        THEN Discovered(sorted.exc, <<>>, default, lg)
        ELSE Activated([i \in 1..Len(sorted.value) |->
                            sorted.value[Len(sorted.value) + 1 - i]],
                       acts, default, lg)

\* discover handing the module-level list itself to the extensions
discover_without_copy(exts, default, lg) ==
    LET acts == [items |-> default, isDefault |-> TRUE]
        sorted == deterministic_sort(exts)
    IN  IF sorted.exc # "none"
        THEN Discovered(sorted.exc, <<>>, default, lg)
        ELSE Activated(sorted.value, acts, default, lg)

\* discover(extensions), reading the module-level list default
discover(exts, default, lg) ==
    LET acts == Copy(default)
        sorted == deterministic_sort(exts)
    IN  IF sorted.exc # "none"
        THEN Discovered(sorted.exc, <<>>, default, lg)
        ELSE Activated(sorted.value, acts, default, lg)

\* ------------------------------------------------------------------ inputs

myproj == <<"m", "y", "p", "r", "o", "j">>
bad123 == <<"1", "2", "3", "b", "a", "d">>

\* project_path texts a caller supplies
PathTexts == {myproj, Append(myproj, SEP)} \cup TextsUpTo({"a", SEP, "."}, MaxPathLen)

\* extension objects of opts["extensions"]: a name and args, which may be None
ExtNoArgs == [name |-> <<"x">>, args |-> [isNone |-> TRUE, value |-> <<>>]]
ExtArgs == [name |-> <<"y">>, args |-> [isNone |-> FALSE, value |-> <<<<"a">>>>]]
ExtArgsAgain == [name |-> <<"y">>, args |-> [isNone |-> FALSE, value |-> <<<<"c">>>>]]

\* the values a caller gives each option
Values(k) ==
    CASE k = "project_path" -> {StrV(t) : t \in PathTexts} \cup {PathV(myproj), PathV(<<"a">>)}
      [] k = "name" -> {myproj, <<"M", "-", "1">>, <<"i", "f">>}
      [] k = "package" -> {myproj, bad123}
      [] k = "author" -> {<<"a">>}
      [] k = "email" -> {<<"a", "@", "b">>}
      [] k = "release_date" ->
            {<<"2", "0", "2", "0", "-", "0", "2", "-", "2", "9">>,
             <<"2", "0", "2", "1", "-", "0", "2", "-", "2", "9">>}
      [] k = "year" -> {1999}
      [] k = "title" -> {<<"a">>}
      [] k = "requirements" -> {<<<<"r">>>>}
      [] k = "extensions" -> {<<ExtNoArgs>>, <<ExtArgs, ExtNoArgs, ExtArgsAgain>>}
      [] k = "root_pkg" -> {<<"r">>}
      [] k = "qual_pkg" -> {<<"r", ".", "a">>}
      [] k = "cli_params" ->
            {EmptyDict,
             [extensions |-> <<<<"x">>, <<"o">>>>,
              args |-> [n \in {<<"o">>, <<"y">>} |-> <<<<"b">>>>]]}
      [] OTHER -> {TRUE, FALSE}

\* every options dict with at most n of the keys K, each with one of its values
RECURSIVE OptsOver(_, _)
OptsOver(K, n) ==
    IF K = {} \/ n = 0 THEN {EmptyDict}
    ELSE LET k == CHOOSE x \in K : TRUE
             rest == OptsOver(K \ {k}, n)
         IN  rest \cup {Put(d, k, v) : d \in {r \in rest : Cardinality(DOMAIN r) < n},
                                       v \in Values(k)}

OptionKeys ==
    {"project_path", "name", "package", "author", "email", "release_date", "year",
     "title", "requirements", "extensions", "root_pkg", "qual_pkg", "pretend",
     "cli_params", "update", "force"}

\* the options a pipeline run starts from: update and force are always set
WithModes(d, u, f) == Put(Put(d, "update", u), "force", f)

RunPathTexts == {myproj, Append(myproj, SEP)} \cup TextsUpTo({"a", SEP, "."}, MaxRunPathLen)

PipelineOpts ==
    {WithModes(d, u, f) :
        d \in {x \in OptsOver({"project_path", "name", "package", "pretend"}, 4) :
                  Has(x, "project_path") =>
                      (x["project_path"].type = "Path" \/ x["project_path"].text \in RunPathTexts)},
        u \in BOOLEAN, f \in BOOLEAN}

\* the file systems a run starts in: the current directory exists, the
\* project directory may, and either may be a clean or a dirty workspace
FileSystems ==
    {[existing |-> {<<".">>} \cup e, repos |-> r, dirty |-> d] :
        e \in SUBSET {myproj}, r \in SUBSET {<<".">>, myproj}, d \in SUBSET {<<".">>, myproj}}

StartFileSystems == {fs \in FileSystems : fs.repos \subseteq fs.existing /\ fs.dirty \subseteq fs.repos}

\* ------------------------------------------------------------------ runs

World == [existing |-> existing, repos |-> repos, dirty |-> dirty,
          repoCalls |-> repoCalls, gitStatus |-> gitStatus]

Logger == [log |-> log, nesting |-> nesting, ran |-> ranAt]

NoResult == [given |-> FALSE, struct |-> {}, opts |-> EmptyDict]

\* before the first run there is no earlier run
NoPrev == [ran |-> FALSE, ok |-> FALSE, update |-> FALSE, path |-> <<>>,
           inited |-> FALSE, edited |-> FALSE]

\* the default list with version control initialised before the files are written
DefaultActions_git_first ==
    <<"get_default_options", "verify_options_consistency", "define_structure",
      "verify_project_dir", "version_migration", "init_git", "create_structure">>

\* the module-level DEFAULT list
DefaultActions ==
    <<"get_default_options", "verify_options_consistency", "define_structure",
      "verify_project_dir", "version_migration", "create_structure", "init_git">>

\* a caller about to run the list acts on options o in file system fs; a run
\* starts from the empty tree
Begin(o, fs, git, exts, acts, at) ==
    /\ DEFAULT = DefaultActions
    /\ extensions = exts
    /\ actions = acts
    /\ struct = {}
    /\ opts = o
    /\ opts0 = o
    /\ idx = 1
    /\ pc = at
    /\ error = "none"
    /\ raised = "none"
    /\ result = NoResult
    /\ existing = fs.existing
    /\ repos = fs.repos
    /\ dirty = fs.dirty
    /\ fs0 = fs
    /\ gitStatus = git
    /\ repoCalls = <<>>
    /\ log = <<>>
    /\ nesting = 0
    /\ ranAt = <<>>
    /\ discovered = <<>>
    /\ executed = <<>>
    /\ runNo = 1
    /\ prev = NoPrev
    /\ edited = FALSE

GitStates == {"ok", "not_installed", "not_configured"}

\* one run of the default pipeline: discover([]), then every action in turn
Init ==
    \E o \in PipelineOpts, fs \in StartFileSystems, git \in GitStates :
        Begin(o, fs, git, <<>>, <<>>, "discover")

\* the subjects of the events reported after the first n
ReportedSince(events, n) == [i \in 1..(Len(events) - n) |-> events[n + i].subject]

\* actions = discover(extensions)
Discover ==
    /\ pc = "discover"
    /\ LET d == discover(extensions, DEFAULT, Logger)
       IN  /\ actions' = d.actions
           /\ DEFAULT' = d.default
           /\ log' = d.log
           /\ nesting' = d.nesting
           /\ ranAt' = d.ran
           /\ discovered' = Append(discovered,
                                   [extensions |-> extensions, exc |-> d.exc,
                                    actions |-> d.actions,
                                    order |-> ReportedSince(d.log, Len(log))])
           /\ error' = d.exc
           /\ pc' = IF d.exc # "none" THEN "failed"
                    ELSE IF d.actions = <<>> THEN "done" ELSE "running"
           /\ result' = IF d.exc = "none" /\ d.actions = <<>>
                        THEN [given |-> TRUE, struct |-> struct, opts |-> opts]
                        ELSE result
    /\ UNCHANGED <<extensions, struct, opts, idx, existing, repos, dirty,
                   gitStatus, repoCalls, executed, raised, opts0, fs0, runNo,
                   prev, edited>>

\* the run's next step, reduce(lambda acc, f: invoke(f, *acc), actions, ({}, opts)):
\* invoke(a, struct, opts) for the action a at idx; the pair it returns goes to
\* the next action, what it raises ends the run
Step ==
    /\ pc = "running"
    /\ idx <= Len(actions)
    /\ \E out \in invoke(actions[idx], struct, opts, World, Logger) :
        /\ executed' = Append(executed, actions[idx])
        /\ raised' = out.raised
        /\ error' = out.exc
        /\ opts' = out.opts
        /\ existing' = out.world.existing
        /\ repos' = out.world.repos
        /\ dirty' = out.world.dirty
        /\ repoCalls' = out.world.repoCalls
        /\ log' = out.log
        /\ nesting' = out.nesting
        /\ ranAt' = out.ran
        /\ IF out.exc # "none"
           THEN /\ pc' = "failed"
                /\ UNCHANGED <<struct, idx, result>>
           ELSE /\ struct' = out.struct
                /\ idx' = idx + 1
                /\ pc' = IF idx = Len(actions) THEN "done" ELSE "running"
                /\ result' = IF idx = Len(actions)
                             THEN [given |-> TRUE, struct |-> out.struct, opts |-> out.opts]
                             ELSE result
    /\ UNCHANGED <<DEFAULT, extensions, actions, gitStatus, discovered, opts0, fs0,
                   runNo, prev, edited>>

\* the action the run is about to invoke
Current == IF pc = "running" /\ idx <= Len(actions) THEN actions[idx] ELSE "none"

GetDefaultOptions ==
    /\ Current = "get_default_options"
    /\ Step

VerifyOptionsConsistency ==
    /\ Current = "verify_options_consistency"
    /\ Step

DefineStructure ==
    /\ Current = "define_structure"
    /\ Step

VerifyProjectDir ==
    /\ Current = "verify_project_dir"
    /\ Step

VersionMigration ==
    /\ Current = "version_migration"
    /\ Step

CreateStructure ==
    /\ Current = "create_structure"
    /\ Step

InitGit ==
    /\ Current = "init_git"
    /\ Step

Next ==
    \/ Discover
    \/ GetDefaultOptions
    \/ VerifyOptionsConsistency
    \/ DefineStructure
    \/ VerifyProjectDir
    \/ VersionMigration
    \/ CreateStructure
    \/ InitGit

Spec == Init /\ [][Next]_vars

\* ------------------------------------------------------------------ direct calls

\* the file system of a call that does not read it
PlainFs == [existing |-> {<<".">>}, repos |-> {}, dirty |-> {}]

\* invoke(action, struct, opts) on one action of this file, with the options
\* a caller may pass it: any of the keys the action reads, set or missing
InitUnit ==
    \/ \E o \in OptsOver(OptionKeys, MaxSupplied), git \in GitStates :
          Begin(o, PlainFs, git, <<>>, <<"get_default_options">>, "running")
    \/ \E o \in OptsOver({"package", "update", "force", "project_path"}, 4),
          fs \in StartFileSystems :
          Begin(o, fs, "ok", <<>>, <<"verify_options_consistency">>, "running")
    \/ \E o \in OptsOver({"update", "force", "project_path"}, 3), fs \in StartFileSystems :
          Begin(o, fs, "ok", <<>>, <<"verify_project_dir">>, "running")
    \/ \E o \in OptsOver({"update", "pretend", "project_path"}, 3), fs \in StartFileSystems :
          Begin(o, fs, "ok", <<>>, <<"init_git">>, "running")

NextUnit ==
    \/ GetDefaultOptions
    \/ VerifyOptionsConsistency
    \/ VerifyProjectDir
    \/ InitGit

SpecUnit == InitUnit /\ [][NextUnit]_vars

\* ------------------------------------------------------------------ discovery

\* the extensions a caller may activate: each with a name, the names it has
\* to come before or after, and what it does to the action list
ExtensionPool ==
    {[name |-> "a", before |-> {}, after |-> {}, effect |-> "keep"],
     [name |-> "b", before |-> {}, after |-> {"c"}, effect |-> "append"],
     [name |-> "c", before |-> {"a"}, after |-> {}, effect |-> "drop_last"],
     [name |-> "d", before |-> {"b"}, after |-> {"b"}, effect |-> "keep"],
     [name |-> "e", before |-> {}, after |-> {}, effect |-> "raise"],
     [name |-> "f", before |-> {"a"}, after |-> {}, effect |-> "append_in_place"],
     [name |-> "g", before |-> {}, after |-> {}, effect |-> "pop_in_place"],
     [name |-> "h", before |-> {}, after |-> {"h"}, effect |-> "keep"]}

\* most extensions given to discover
MaxExtensions == 3

ExtensionLists ==
    {l \in UNION {[1..n -> ExtensionPool] : n \in 0..MaxExtensions} :
        \A i, j \in DOMAIN l : l[i].name = l[j].name => i = j}

InitDiscover ==
    \E exts \in ExtensionLists :
        Begin(WithModes(EmptyDict, FALSE, FALSE), PlainFs, "ok", exts, <<>>, "discover")

\* most calls of discover one after the other
MaxDiscovers == 2

\* the caller calls discover once more, with the same extensions or with none
DiscoverAgain ==
    /\ pc # "discover"
    /\ Len(discovered) < MaxDiscovers
    /\ extensions' \in {discovered[1].extensions, <<>>}
    /\ pc' = "discover"
    /\ UNCHANGED <<DEFAULT, actions, struct, opts, idx, error, result, existing, repos,
                   dirty, gitStatus, repoCalls, log, nesting, ranAt, discovered,
                   executed, raised, opts0, fs0, runNo, prev, edited>>

NextDiscover ==
    \/ Discover
    \/ DiscoverAgain

SpecDiscover == InitDiscover /\ [][NextDiscover]_vars

\* ------------------------------------------------------------------ extended runs

\* the options of a run with extensions: a new project or an update of it
ExtendedOpts ==
    {WithModes(Put(EmptyDict, "project_path", StrV(myproj)), u, f) :
        u \in BOOLEAN, f \in BOOLEAN}

\* a run of the list discover builds from the extensions it is given
InitExtended ==
    \E exts \in ExtensionLists, o \in ExtendedOpts :
        Begin(o, PlainFs, "ok", exts, <<>>, "discover")

CustomAction ==
    /\ Current = "custom_action"
    /\ Step

NextExtended ==
    \/ Next
    \/ CustomAction

SpecExtended == InitExtended /\ [][NextExtended]_vars

\* ------------------------------------------------------------------ runs in a row

\* the options of runs that follow each other on one project directory
RunsOpts ==
    {WithModes(d, u, f) :
        d \in {Put(x, "project_path", StrV(t)) :
                  x \in OptsOver({"package", "pretend"}, 2), t \in {myproj, Append(myproj, SEP)}},
        u \in BOOLEAN, f \in BOOLEAN}

InitRuns ==
    \E o \in RunsOpts, fs \in StartFileSystems : Begin(o, fs, "ok", <<>>, <<>>, "discover")

Finished == pc \in {"done", "failed"}

\* the path the finished run worked on, empty when it never got one
RunPath ==
    IF Has(opts, "project_path") /\ opts["project_path"].type = "Path"
    THEN opts["project_path"].text ELSE <<>>

\* what the next run can know of the one that just finished
Summary ==
    [ran |-> TRUE, ok |-> pc = "done", update |-> opts0["update"], path |-> RunPath,
     inited |-> \E i \in 1..Len(repoCalls) :
                    repoCalls[i].path = RunPath /\ ~Truthy(repoCalls[i].pretend),
     edited |-> edited]

\* somebody changes a file of a workspace between two runs and does not commit
ExternalEdit ==
    /\ Finished
    /\ runNo < MaxRuns
    /\ ~edited
    /\ \E p \in repos : dirty' = dirty \cup {p}
    /\ edited' = TRUE
    /\ UNCHANGED <<DEFAULT, extensions, actions, struct, opts, idx, pc, error, result,
                   existing, repos, gitStatus, repoCalls, log, nesting, ranAt,
                   discovered, executed, raised, opts0, fs0, runNo, prev>>

\* the caller runs the pipeline again, on the file system the last run left
StartRun ==
    /\ Finished
    /\ runNo < MaxRuns
    /\ \E o \in RunsOpts :
        /\ opts' = o
        /\ opts0' = o
    /\ prev' = Summary
    /\ runNo' = runNo + 1
    /\ fs0' = [existing |-> existing, repos |-> repos, dirty |-> dirty]
    /\ actions' = <<>>
    /\ struct' = {}
    /\ idx' = 1
    /\ pc' = "discover"
    /\ error' = "none"
    /\ raised' = "none"
    /\ result' = NoResult
    /\ repoCalls' = <<>>
    /\ log' = <<>>
    /\ nesting' = 0
    /\ ranAt' = <<>>
    /\ discovered' = <<>>
    /\ executed' = <<>>
    /\ edited' = FALSE
    /\ UNCHANGED <<DEFAULT, extensions, existing, repos, dirty, gitStatus>>

NextRuns ==
    \/ Next
    \/ ExternalEdit
    \/ StartRun

SpecRuns == InitRuns /\ [][NextRuns]_vars

\* ------------------------------------------------------------------ claims

Ran(a) == \E i \in 1..Len(executed) : executed[i] = a

FsUnchanged == existing = fs0.existing /\ repos = fs0.repos /\ dirty = fs0.dirty

World0 == [existing |-> fs0.existing, repos |-> fs0.repos, dirty |-> fs0.dirty,
           repoCalls |-> <<>>, gitStatus |-> gitStatus]

\* the caller got back the tree and the options it passed, unchanged
PassedThrough ==
    /\ pc = "done"
    /\ error = "none"
    /\ result = [given |-> TRUE, struct |-> {}, opts |-> opts0]

\* C1: discover called with an empty extension list returns exactly the seven
\* default actions, in their declared order.
C1_DiscoverEmpty ==
    (pc # "discover" /\ extensions = <<>>) =>
        /\ error = "none"
        /\ actions = <<"get_default_options", "verify_options_consistency",
                       "define_structure", "verify_project_dir", "version_migration",
                       "create_structure", "init_git">>

C1_Witness == pc = "running" /\ extensions = <<>> /\ Len(actions) = 7

\* C2: a default run that fails in one of its first five steps has invoked
\* neither create_structure nor init_git and has changed nothing on disk or in
\* version control; when the target path exists and neither update nor force
\* is set, create_structure is never invoked, the run never succeeds, and a
\* run that gets as far as verify_project_dir fails there with
\* DirectoryAlreadyExists.
C2_NoWriteBeforeMaterialisation ==
    /\ (pc = "failed" /\ Len(executed) <= 5) =>
            /\ ~Ran("create_structure")
            /\ ~Ran("init_git")
            /\ FsUnchanged
            /\ repoCalls = <<>>
    /\ (/\ RunPath # <<>>
        /\ RunPath \in fs0.existing
        /\ ~opts0["update"]
        /\ ~opts0["force"]) =>
            /\ ~Ran("create_structure")
            /\ pc # "done"
            /\ FsUnchanged
            /\ Len(executed) >= 4 =>
                  (pc = "failed" /\ error = "DirectoryAlreadyExists" /\ Len(executed) = 4)

C2_Witness ==
    /\ pc = "failed"
    /\ error = "DirectoryAlreadyExists"
    /\ executed = SubSeq(DefaultActions, 1, 4)
    /\ RunPath = myproj

\* the options verify_project_dir reads are all there
DirArgs ==
    /\ actions = <<"verify_project_dir">>
    /\ {"project_path", "update", "force"} \subseteq DOMAIN opts0
    /\ opts0["project_path"].type = "Path"

\* C3: verify_project_dir raises DirectoryAlreadyExists iff the path exists
\* and neither update nor force is set, DirectoryDoesNotExist iff the path is
\* missing and update is set, and otherwise returns the pair it received.
C3_VerifyProjectDir ==
    (DirArgs /\ Finished) =>
        LET there == opts0["project_path"].text \in fs0.existing
            already == there /\ ~opts0["update"] /\ ~opts0["force"]
            missing == ~there /\ opts0["update"]
        IN  /\ error = "DirectoryAlreadyExists" <=> already
            /\ error = "DirectoryDoesNotExist" <=> missing
            /\ (~already /\ ~missing) => PassedThrough
            /\ FsUnchanged

C3_Witness ==
    /\ DirArgs
    /\ error = "DirectoryDoesNotExist"
    /\ opts0["force"]

\* the options verify_options_consistency reads are all there
ConsistencyArgs ==
    /\ actions = <<"verify_options_consistency">>
    /\ {"package", "project_path", "update", "force"} \subseteq DOMAIN opts0

\* C4: verify_options_consistency raises InvalidIdentifier whenever the
\* package is no valid identifier, whatever update and force are; otherwise
\* GitDirtyWorkspace iff update is set, force is not and the workspace of the
\* target path is not clean; otherwise it returns the pair it received.
C4_VerifyOptionsConsistency ==
    (ConsistencyArgs /\ Finished) =>
        LET valid == is_valid_identifier(opts0["package"])
            unclean == ~is_git_workspace_clean(opts0["project_path"], World0)
            refused == opts0["update"] /\ ~opts0["force"] /\ unclean
        IN  /\ ~valid => error = "InvalidIdentifier"
            /\ valid => (error = "GitDirtyWorkspace" <=> refused)
            /\ (valid /\ ~refused) => PassedThrough
            /\ FsUnchanged

C4_Witness ==
    /\ ConsistencyArgs
    /\ error = "InvalidIdentifier"
    /\ opts0["update"]
    /\ ~opts0["force"]
    /\ ~is_git_workspace_clean(opts0["project_path"], World0)

\* C5: in a default run define_structure and create_structure are invoked
\* only with a package that is a valid identifier; with the package "123bad"
\* define_structure is never invoked and the run never succeeds, and once
\* get_default_options has returned the run fails with InvalidIdentifier in
\* verify_options_consistency.
C5_ValidPackageBeforeStructure ==
    /\ (Ran("define_structure") \/ Ran("create_structure")) =>
            (Has(opts, "package") /\ is_valid_identifier(opts["package"]))
    /\ (Has(opts0, "package") /\ opts0["package"] = bad123) =>
            /\ ~Ran("define_structure")
            /\ pc # "done"
            /\ Len(executed) >= 2 =>
                  /\ pc = "failed"
                  /\ error = "InvalidIdentifier"
                  /\ executed = <<"get_default_options", "verify_options_consistency">>

C5_Witness ==
    /\ Has(opts0, "package")
    /\ opts0["package"] = bad123
    /\ pc = "failed"
    /\ error = "InvalidIdentifier"
    /\ Len(executed) = 2

\* C6: what an action raises reaches the caller of the run as it was raised:
\* the run has failed with that exception, the raising action is the last one
\* invoked, the caller has no result, and nothing is invoked afterwards.
C6_Raised ==
    /\ raised # "none" =>
            /\ pc = "failed"
            /\ error = raised
            /\ result.given = FALSE
            /\ executed = SubSeq(actions, 1, idx)
    /\ pc = "failed" => (error # "none" /\ result.given = FALSE)

C6_ExceptionPropagates ==
    /\ []C6_Raised
    /\ [][pc = "failed" => (pc' = "failed" /\ executed' = executed /\ error' = error)]_vars

C6_Witness ==
    /\ pc = "failed"
    /\ raised = "GitDirtyWorkspace"
    /\ error = "GitDirtyWorkspace"
    /\ Len(executed) = 2

\* a default run that git lets start, in a file system without the directory myproj
FreshProject ==
    /\ gitStatus = "ok"
    /\ myproj \notin fs0.existing
    /\ ~opts0["update"]
    /\ ~opts0["force"]

\* C7, as claimed: from options holding only name = "myproj", get_default_options
\* fills package = "myproj" and project_path = Path("myproj"), and the run goes
\* through all seven actions and succeeds.
C7_NameOnly ==
    (/\ FreshProject
     /\ DOMAIN opts0 = {"name", "update", "force"}
     /\ opts0["name"] = myproj
     /\ Finished) =>
        /\ pc = "done"
        /\ executed = DefaultActions
        /\ result.opts["package"] = myproj
        /\ result.opts["project_path"] = PathV(myproj)

\* C7, amended: from options holding only project_path = "myproj",
\* get_default_options fills name = "myproj", package = "myproj" and
\* project_path = Path("myproj"), and the run goes through all seven actions
\* and succeeds.
C7_PathOnly ==
    (/\ FreshProject
     /\ DOMAIN opts0 = {"project_path", "update", "force"}
     /\ opts0["project_path"] = StrV(myproj)) =>
        /\ pc # "failed"
        /\ Len(executed) >= 1 =>
              /\ opts["name"] = myproj
              /\ opts["package"] = myproj
              /\ opts["project_path"] = PathV(myproj)
        /\ Finished =>
              /\ executed = <<"get_default_options", "verify_options_consistency",
                              "define_structure", "verify_project_dir",
                              "version_migration", "create_structure", "init_git">>
              /\ result.given
              /\ result.opts["project_path"] = PathV(myproj)
              /\ myproj \in existing

C7_Witness ==
    /\ FreshProject
    /\ DOMAIN opts0 = {"project_path", "update", "force"}
    /\ opts0["project_path"] = StrV(myproj)
    /\ pc = "done"
    /\ Len(executed) = 7

\* C8: a default run with update set and a missing target path fails with
\* DirectoryDoesNotExist and no other error, whatever force is (stated for the
\* runs in which git is there, get_default_options has returned and the
\* package is valid).
C8_UpdateMissingDirectory ==
    (/\ gitStatus = "ok"
     /\ opts0["update"]
     /\ Len(executed) >= 2
     /\ RunPath # <<>>
     /\ RunPath \notin fs0.existing
     /\ is_valid_identifier(opts["package"])
     /\ Finished) =>
        (pc = "failed" /\ error = "DirectoryDoesNotExist")

\* the earlier run created the project: it succeeded without update, made the
\* repository with its initial commit, and nobody changed a file since; this
\* run updates the same path
UpdatesProduced ==
    /\ prev.ran
    /\ prev.ok
    /\ ~prev.update
    /\ prev.inited
    /\ ~prev.edited
    /\ opts0["update"]
    /\ RunPath = prev.path

\* C9: a default run with update set, on the path an earlier run without
\* update produced and committed, with no change made in between, raises
\* neither GitDirtyWorkspace nor DirectoryDoesNotExist, initialises no
\* repository, and succeeds unless its own package is no valid identifier.
C9_UpdateAfterCreate ==
    UpdatesProduced =>
        /\ error \notin {"GitDirtyWorkspace", "DirectoryDoesNotExist"}
        /\ repoCalls = <<>>
        /\ repos = fs0.repos
        /\ (Finished /\ is_valid_identifier(opts["package"])) => pc = "done"

C9_Witness ==
    /\ UpdatesProduced
    /\ ~opts0["force"]
    /\ pc = "done"
    /\ Len(executed) = 7

\* a direct call of get_default_options has returned
DefaultsReturned == actions = <<"get_default_options">> /\ pc = "done"

\* what C10 says of every key but year; a normalised path ends with a
\* separator only when it is a bare root
C10_Keys(r) ==
    /\ {"project_path", "name", "package", "author", "email", "release_date", "year",
        "title", "requirements", "extensions", "root_pkg", "qual_pkg", "pretend"}
          \subseteq DOMAIN r
    /\ r["project_path"].type = "Path"
    /\ r["project_path"].text # <<>>
    /\ PathOf(r["project_path"].text) = r["project_path"].text
    /\ r["project_path"].text[Len(r["project_path"].text)] = SEP =>
          PathParts(r["project_path"].text) = <<>>
    /\ ~Has(opts0, "requirements") => r["requirements"] = <<>>
    /\ ~Has(opts0, "extensions") => r["extensions"] = <<>>
    /\ ~Has(opts0, "root_pkg") => r["root_pkg"] = r["package"]
    /\ ~Has(opts0, "qual_pkg") => r["qual_pkg"] = r["package"]
    /\ ~Has(opts0, "pretend") => r["pretend"] = FALSE

\* C10, as claimed: the options get_default_options returns hold every derived
\* key, and year is the year of release_date.
C10_YearOfReleaseDate ==
    DefaultsReturned =>
        /\ C10_Keys(result.opts)
        /\ result.opts["year"] = strptime(result.opts["release_date"]).year

\* C10, amended: the options get_default_options returns hold every derived
\* key; year is the year of release_date when the caller gave no year, and the
\* caller's year otherwise.
C10_DerivedKeys ==
    DefaultsReturned =>
        /\ C10_Keys(result.opts)
        /\ ~Has(opts0, "year") =>
              result.opts["year"] = strptime(result.opts["release_date"]).year
        /\ Has(opts0, "year") => result.opts["year"] = opts0["year"]

C10_Witness ==
    /\ DefaultsReturned
    /\ Has(opts0, "year")
    /\ ~Has(opts0, "qual_pkg")
    /\ result.opts["year"] # strptime(result.opts["release_date"]).year

\* the names of a list of extensions, in its order
Names(exts) == [i \in 1..Len(exts) |-> exts[i].name]

\* the place of a name in an activation order
Pos(order, n) == CHOOSE i \in 1..Len(order) : order[i] = n

\* x declares that it comes before y, or y that it comes after x
MustPrecede(x, y) == y.name \in x.before \/ x.name \in y.after

\* some of the extensions each wait for another of them (or for themselves)
Cyclic(exts) ==
    \E S \in SUBSET (1..Len(exts)) :
        /\ S # {}
        /\ \A i \in S : \E j \in S : MustPrecede(exts[j], exts[i])

\* the activation order of a call keeps every declared constraint, and an
\* extension overtakes one given before it only while that one has to wait
Ordered(c) ==
    LET exts == c.extensions
    IN  /\ Len(c.order) = Len(exts)
        /\ \A i \in 1..Len(exts) : \E k \in 1..Len(c.order) : c.order[k] = exts[i].name
        /\ \A i, j \in 1..Len(exts) :
              MustPrecede(exts[i], exts[j]) =>
                  Pos(c.order, exts[i].name) < Pos(c.order, exts[j].name)
        /\ \A i, j \in 1..Len(exts) :
              (i < j /\ Pos(c.order, exts[j].name) < Pos(c.order, exts[i].name)) =>
                  \E k \in 1..Len(exts) :
                      /\ MustPrecede(exts[k], exts[i])
                      /\ Pos(c.order, exts[j].name) <= Pos(c.order, exts[k].name)

\* C11: when the before/after constraints of the given extensions are acyclic,
\* discover does not fail on the ordering; if no extension fails it activates
\* them in an order that keeps every constraint and the input order otherwise;
\* two calls with the same extensions activate in the same order and return
\* the same list.
C11_ConstraintOrder ==
    /\ \A n \in 1..Len(discovered) :
          ~Cyclic(discovered[n].extensions) =>
              /\ discovered[n].exc # "OrderingError"
              /\ discovered[n].exc = "none" => Ordered(discovered[n])
    /\ \A n, m \in 1..Len(discovered) :
          discovered[n].extensions = discovered[m].extensions =>
              discovered[n] = discovered[m]

C11_Witness ==
    /\ Len(discovered) = 2
    /\ discovered[1].extensions = discovered[2].extensions
    /\ discovered[2].exc = "none"
    /\ Len(discovered[2].order) = 3
    /\ discovered[2].order # Names(discovered[2].extensions)

\* C12: when the constraints of the given extensions are cyclic, discover
\* fails with OrderingError, returns no list and activates no extension.
C12_CyclicConstraints ==
    \A n \in 1..Len(discovered) :
        Cyclic(discovered[n].extensions) =>
            /\ discovered[n].exc = "OrderingError"
            /\ discovered[n].order = <<>>
            /\ discovered[n].actions = <<>>
            /\ \A i \in 1..Len(log) : log[i].event # "activate"
            /\ ranAt = <<>>

C12_Witness ==
    /\ Len(discovered) = 1
    /\ Len(extensions) = 3
    /\ Cyclic(extensions)
    /\ error = "OrderingError"
    /\ pc = "failed"

\* init_git called with the keys it reads
GitArgs ==
    /\ actions = <<"init_git">>
    /\ {"project_path", "update"} \subseteq DOMAIN opts0

\* the value of opts.get("pretend")
PretendFlag == IF Has(opts0, "pretend") THEN BoolV(opts0["pretend"]) ELSE NoneFlag

\* C13: init_git calls repo.init_commit_repo, once, with the project path and
\* the options' pretend flag, iff update is not set and the path is not a
\* workspace already; otherwise it makes no call and changes nothing; either
\* way it returns the tree and the options it received.
C13_InitGit ==
    (GitArgs /\ Finished) =>
        /\ PassedThrough
        /\ opts = opts0
        /\ IF ~opts0["update"] /\ ~is_git_repo(opts0["project_path"], World0)
           THEN repoCalls = <<[path |-> opts0["project_path"].text, pretend |-> PretendFlag]>>
           ELSE repoCalls = <<>> /\ FsUnchanged

C13_Witness ==
    /\ GitArgs
    /\ pc = "done"
    /\ Len(repoCalls) = 1
    /\ Truthy(repoCalls[1].pretend)
    /\ FsUnchanged

\* get_default_options called on its own has returned or raised
DefaultsCalled == actions = <<"get_default_options">> /\ Finished

\* C14: get_default_options leaves the options map the caller passed as it
\* was: after the call that map has the keys and the values it had before.
C14_CallerOptionsUntouched ==
    DefaultsCalled =>
        /\ DOMAIN opts = DOMAIN opts0
        /\ \A k \in DOMAIN opts0 : opts[k] = opts0[k]

\* two values of the option k are the same
SameValue(k, a, b) ==
    IF k = "cli_params"
    THEN /\ DOMAIN a = DOMAIN b
         /\ \A x \in DOMAIN a :
               IF x = "args"
               THEN /\ DOMAIN a[x] = DOMAIN b[x]
                    /\ \A n \in DOMAIN a[x] : a[x][n] = b[x][n]
               ELSE a[x] = b[x]
    ELSE a = b

\* the supplied keys, but for the ones in except, have the value they were
\* given in the options get_default_options returned
SuppliedKept(except) ==
    /\ DOMAIN opts0 \subseteq DOMAIN result.opts
    /\ \A k \in DOMAIN opts0 \ except : SameValue(k, result.opts[k], opts0[k])

\* C15, as claimed: every key the caller supplied, project_path and cli_params
\* included, has in the options get_default_options returns the value the
\* caller gave it.
C15_AppendOnly == DefaultsReturned => SuppliedKept({})

\* C15, amended: every key the caller supplied is in the returned options,
\* and but for project_path and cli_params with the value the caller gave it;
\* project_path is the Path of the given text without trailing separators.
C15_SuppliedKept ==
    DefaultsReturned =>
        /\ SuppliedKept({"project_path", "cli_params"})
        /\ Has(opts0, "project_path") =>
              result.opts["project_path"] =
                  PathV(PathOf(rstrip(opts0["project_path"].text, SEP)))

C15_Witness ==
    /\ DefaultsReturned
    /\ Has(opts0, "project_path")
    /\ Has(opts0, "pretend")
    /\ opts0["pretend"]
    /\ result.opts["project_path"] # opts0["project_path"]

\* each extension applied to what the one before it returned, left to right
RECURSIVE Folded(_, _)
Folded(exts, acts) ==
    IF exts = <<>> THEN acts ELSE Folded(Tail(exts), Extend(exts[1], acts).actions)

\* C16: a call of discover that returns has activated every given extension
\* exactly once, in the sorted order, the first on the default list and each
\* later one on what the one before it returned; it returns what the last one
\* returned, and the default list itself when no extension changes the list.
C16_ActivatesEachOnce ==
    \A n \in 1..Len(discovered) :
        LET c == discovered[n]
            sorted == deterministic_sort(c.extensions).value
        IN  c.exc = "none" =>
                /\ c.order = Names(sorted)
                /\ Len(c.order) = Len(c.extensions)
                /\ \A i \in 1..Len(c.extensions) :
                      Cardinality({k \in 1..Len(c.order) : c.order[k] = c.extensions[i].name}) = 1
                /\ c.actions = Folded(sorted, DefaultActions)
                /\ (\A i \in 1..Len(c.extensions) : c.extensions[i].effect = "keep") =>
                      c.actions = DefaultActions

C16_Witness ==
    /\ Len(discovered) = 1
    /\ discovered[1].exc = "none"
    /\ discovered[1].order = <<"c", "a", "b">>
    /\ Names(discovered[1].extensions) = <<"a", "b", "c">>
    /\ actions = <<"get_default_options", "verify_options_consistency",
                   "define_structure", "verify_project_dir", "version_migration",
                   "create_structure", "custom_action">>

\* the cli_params the caller passed and the extensions it requested
OldCli == Get(opts0, "cli_params", EmptyDict)
OldArgs == Get(OldCli, "args", EmptyDict)
Requested == Get(opts0, "extensions", <<>>)

\* the requests of the extension named n that carry args
WithArgs(n) == {i \in 1..Len(Requested) : Requested[i].name = n /\ ~Requested[i].args.isNone}

\* (a) of C17: the recorded and the requested names, each once
C17_Names(cli) ==
    /\ Range(cli.extensions) = Range(Get(OldCli, "extensions", <<>>)) \cup RequestedNames(Requested)
    /\ \A i, j \in 1..Len(cli.extensions) : cli.extensions[i] = cli.extensions[j] => i = j

\* C17, as claimed: cli_params holds the recorded and the requested extension
\* names without duplicates; its args keep every recorded entry, map every
\* requested extension with args to those args, and get no entry for an
\* extension requested without args.
C17_CliParams ==
    DefaultsReturned =>
        LET cli == result.opts["cli_params"]
        IN  /\ C17_Names(cli)
            /\ \A n \in DOMAIN OldArgs : n \in DOMAIN cli.args /\ cli.args[n] = OldArgs[n]
            /\ \A i \in 1..Len(Requested) :
                  ~Requested[i].args.isNone =>
                      /\ Requested[i].name \in DOMAIN cli.args
                      /\ cli.args[Requested[i].name] = Requested[i].args.value
            /\ \A n \in DOMAIN cli.args : n \in DOMAIN OldArgs \/ WithArgs(n) # {}

\* C17, amended: the names as claimed; the args have an entry for every
\* recorded name and every extension requested with args, and no other: the
\* args of the last request that carries args, and the recorded entry for a
\* name no request with args mentions.
C17_CliParamsMerged ==
    DefaultsReturned =>
        LET cli == result.opts["cli_params"]
        IN  /\ C17_Names(cli)
            /\ DOMAIN cli.args = DOMAIN OldArgs \cup {n \in RequestedNames(Requested) : WithArgs(n) # {}}
            /\ \A n \in DOMAIN cli.args :
                  IF WithArgs(n) # {}
                  THEN LET last == CHOOSE i \in WithArgs(n) : \A j \in WithArgs(n) : j <= i
                       IN  cli.args[n] = Requested[last].args.value
                  ELSE cli.args[n] = OldArgs[n]

C17_Witness ==
    /\ DefaultsReturned
    /\ <<"y">> \in DOMAIN OldArgs
    /\ <<"o">> \in DOMAIN result.opts["cli_params"].args
    /\ Cardinality(WithArgs(<<"y">>)) = 2
    /\ result.opts["cli_params"].args[<<"y">>] = <<<<"c">>>>
    /\ Len(result.opts["cli_params"].extensions) = 3

\* the extension changes the list it receives in place
InPlace(ext) == ext.effect \in {"append_in_place", "pop_in_place"}

\* C18: whatever discover has been called with, extensions that change the
\* list they receive in place included, the module-level list holds the seven
\* default actions in order, and every call of discover without extensions
\* returns exactly them.
C18_DefaultUnchanged ==
    /\ DEFAULT = DefaultActions
    /\ Len(DEFAULT) = 7
    /\ \A n \in 1..Len(discovered) :
          discovered[n].extensions = <<>> =>
              discovered[n].exc = "none" /\ discovered[n].actions = DefaultActions

C18_Witness ==
    /\ Len(discovered) = 2
    /\ \E i \in 1..Len(discovered[1].extensions) : InPlace(discovered[1].extensions[i])
    /\ discovered[1].exc = "none"
    /\ discovered[1].actions # DefaultActions
    /\ discovered[2].extensions = <<>>
    /\ discovered[2].actions = DefaultActions

\* the events of one kind, in the order they were reported
Events(kind) == SelectSeq(log, LAMBDA e : e.event = kind)

\* C19: every invoke and every _activate has reported its event, at the depth
\* of its caller, before the action or extension started, has run it one level
\* deeper, and has left the depth as it found it, whether the callee returned
\* or raised: the depth is back at its initial value after any number of calls.
C19_LoggingScope ==
    /\ nesting = 0
    /\ Len(ranAt) = Len(log)
    /\ \A i \in 1..Len(log) :
          /\ log[i].event \in {"invoke", "activate"}
          /\ ranAt[i].after = i
          /\ ranAt[i].depth = log[i].depth + 1
    /\ Len(Events("invoke")) = Len(executed)
    /\ \A i \in 1..Len(executed) : Events("invoke")[i].subject = get_id(executed[i])
    /\ Len(discovered) = 1 =>
          /\ Len(Events("activate")) = Len(discovered[1].order)
          /\ \A i \in 1..Len(discovered[1].order) :
                Events("activate")[i].subject = discovered[1].order[i]

C19_Witness ==
    /\ pc = "failed"
    /\ raised = "DirectoryDoesNotExist"
    /\ Len(Events("activate")) = 3
    /\ Len(log) = 7
    /\ log[7].subject = get_id("verify_project_dir")
    /\ nesting = 0

====
